---- MODULE Spec2Model ----
(***************************************************************************)
(* Model of the Mahjong round/table outcome engine: simulate_round,        *)
(* simulate_table_round, _run_table and the scoring/utility transforms.    *)
(*                                                                         *)
(* Units.  Real-valued quantities are kept as scaled integers:             *)
(*   Q, the completion draw and a NeutralPolicy draw   tenths              *)
(*   base_R                                             tenths              *)
(*   R (composition adjusted) and the deal-in draw      1/400               *)
(*   profit                                             points (integer     *)
(*                                                      penalty samples)    *)
(*   utility                                            tenths, the square  *)
(*                                                      root rounded toward *)
(*                                                      zero                *)
(***************************************************************************)
EXTENDS Integers, Sequences, FiniteSets, TLC

VARIABLES
    players,            \* the roster: seat -> [strategy, strategy_type]
    cfg,                \* the configuration dictionary
    dealer_index,       \* _run_table's dealer_index / simulate_table_round's argument
    pc,                 \* position of the running call
    player_data,        \* simulate_table_round's player_data (local to one call)
    results,            \* its per-seat results
    meta,               \* its round metadata
    rng_pos,            \* per seat: draws taken from the NeutralPolicy's private _rng
    round_no,           \* rounds completed by _run_table
    round_dealer,       \* dealer_index handed to the last simulate_table_round call
    all_utilities,      \* per seat: np.sum of all_utilities[i] so far
    dealer_bucket,      \* dealer_round_stats["utilities"]
    non_dealer_bucket,  \* non_dealer_round_stats["utilities"]
    summary,            \* _run_table's return value
    tally,              \* history: rounds counted by what happened to the dealer
    sp,                 \* the single-player simulate_round call
    trial,              \* the run_simulation call
    pol,                \* NeutralPolicy instances and the calls made to them
    fn                  \* a pure function applied to drawn arguments

vars == <<players, cfg, dealer_index, pc, player_data, results, meta, rng_pos,
          round_no, round_dealer, all_utilities, dealer_bucket, non_dealer_bucket,
          summary, tally, sp, trial, pol, fn>>

tableVarsOnly == <<players, cfg, dealer_index, pc, player_data, results, meta, rng_pos,
                   round_no, round_dealer, all_utilities, dealer_bucket,
                   non_dealer_bucket, summary, tally>>

tableVars == <<players, cfg, dealer_index, pc, player_data, results, meta, rng_pos,
               round_no, round_dealer, all_utilities, dealer_bucket,
               non_dealer_bucket, summary, tally, trial, pol, fn>>

----------------------------------------------------------------------------
(* Program constants and model bounds *)

NumSeats == 4

MAX_TOTAL_FAN == 16

DEALER_READY_THRESHOLD == 6

baseline_utility == 200

None == -1

MaxRounds == 2

Seats == 0 .. (NumSeats - 1)

SeatSeq == [k \in 1 .. NumSeats |-> k - 1]

Min(a, b) == IF a <= b THEN a ELSE b

Max(a, b) == IF a >= b THEN a ELSE b

Abs(a) == IF a < 0 THEN -a ELSE a

RECURSIVE SumSeq(_)
SumSeq(s) == IF s = <<>> THEN 0 ELSE Head(s) + SumSeq(Tail(s))

RECURSIVE SqrtSearch(_, _, _)
SqrtSearch(n, lo, hi) ==
    IF hi - lo <= 1 THEN lo
    ELSE LET mid == (lo + hi) \div 2
         IN  IF mid * mid <= n THEN SqrtSearch(n, mid, hi)
                               ELSE SqrtSearch(n, lo, mid)

\* floor of the square root of n, 0 <= n < 46340^2
Isqrt(n) == SqrtSearch(n, 0, 46340)

----------------------------------------------------------------------------
(* Sampled inputs *)

\* one seat's draws in a round: hand quality, the can_complete_hand draw,
\* deal-in risk, base fan, kong count
Draw(q, u, r, f, k) ==
    [Q |-> q, u |-> u, base_R |-> r, base_fan |-> f, kong |-> k]

SeatDraws ==
    { Draw(8, 9, 0, 0, 0),      \* ready hand quality, hand does not complete
      Draw(3, 2, 5, 0, 0),      \* completes with 0 fan
      Draw(8, 2, 0, 0, 0),      \* completes with 0 fan, no deal-in risk
      Draw(8, 2, 5, 2, 1),      \* completes with 3 fan
      Draw(3, 2, 0, 13, 2) }    \* completes with 13 fan and 2 kongs

\* the draws a session of rounds_per_trial rounds is explored with
SessionDraws(rounds_per_trial) ==
    IF rounds_per_trial <= 2
    THEN { Draw(8, 9, 0, 0, 0), Draw(3, 2, 5, 0, 0), Draw(8, 2, 5, 2, 1) }
    ELSE { Draw(8, 9, 0, 0, 0), Draw(8, 2, 5, 2, 1) }

\* np.random.rand() of the deal-in decision, in 1/400
DealRandSamples == {0, 399}

\* random.Random(seed).random(), first draws, in tenths (rounded down)
RandomStream(seed) ==
    CASE seed = 42 -> <<6, 0, 2, 2, 7, 6>>
      [] seed = 43 -> <<0, 6, 1, 4, 6, 7>>
      [] seed = 44 -> <<4, 5, 8, 1, 2, 0>>

\* the n-th draw (n = 0 first) of a generator seeded with seed
RngValue(seed, n) == RandomStream(seed)[n + 1]

----------------------------------------------------------------------------
(* Strategies *)

\* mutant: the aggressive strategy accepts every hand
aggressive_strategy_AcceptAll(fan, threshold) == TRUE

\* mutant: a hand exactly at the threshold is rejected
defensive_strategy_Strict(fan, fan_min) == fan > fan_min

defensive_strategy(fan, fan_min) == fan >= fan_min

aggressive_strategy(fan, threshold) == fan >= threshold

\* mutant: a hand of 1 fan or more is not accepted on its fan
should_hu_NoFanRule(fan, risk, draw) ==
    IF risk > 160 THEN TRUE ELSE draw >= 2

\* NeutralPolicy.should_hu; draw is the value _rng.random() yields if it is called
should_hu(fan, risk, draw) ==
    IF risk > 160 THEN TRUE
    ELSE IF fan >= 1 THEN TRUE
    ELSE draw >= 2

\* whether should_hu(fan, risk) reaches self._rng.random()
should_hu_draws(fan, risk) == ~(risk > 160) /\ ~(fan >= 1)

DefPlayer(fan_min) ==
    [strategy |-> [kind |-> "defensive", param |-> fan_min], strategy_type |-> "DEF"]

AggPlayer(threshold) ==
    [strategy |-> [kind |-> "aggressive", param |-> threshold], strategy_type |-> "AGG"]

NeuPlayer(seed) ==
    [strategy |-> [kind |-> "neutral", param |-> seed], strategy_type |-> "NEU"]

\* the strategy_callable dispatch of simulate_table_round
StrategyAccepts(player, total_fan, R, draw) ==
    IF player.strategy.kind = "neutral" THEN should_hu(total_fan, R, draw)
    ELSE IF player.strategy.kind = "defensive"
         THEN defensive_strategy(total_fan, player.strategy.param)
         ELSE aggressive_strategy(total_fan, player.strategy.param)

\* simulate_table(composition, cfg): composition DEF seats, then AGG seats
TablePlayers(composition, c) ==
    [i \in Seats |-> IF i < composition THEN DefPlayer(c.fan_min)
                                        ELSE AggPlayer(c.t_fan_threshold)]

\* rosters handed to simulate_custom_table: one tested seat and three NeutralPolicy seats
CustomPlayers(first) ==
    [i \in Seats |-> IF i = 0 THEN first ELSE NeuPlayer(41 + i)]

----------------------------------------------------------------------------
(* Scoring and utility transforms *)

compute_score(fan, base_points) == base_points * (2 ^ fan)

\* mutant: a call with neither flag set is paid as a deal-in
compute_winner_profit_DefaultSingle(score, is_self_draw, deal_in_occurred) ==
    IF is_self_draw THEN score * 3 ELSE score

compute_winner_profit(score, is_self_draw, deal_in_occurred) ==
    IF is_self_draw THEN score * 3
    ELSE IF deal_in_occurred THEN score
    ELSE score * 3

\* mutant: the cost is returned as an amount received
compute_loser_cost_Positive(score, penalty_multiplier, is_deal_in_loser) ==
    IF is_deal_in_loser THEN score * penalty_multiplier ELSE score

\* mutant: the deal-in loser pays the plain score
compute_loser_cost_NoPenalty(score, penalty_multiplier, is_deal_in_loser) == -score

compute_loser_cost(score, penalty_multiplier, is_deal_in_loser) ==
    IF is_deal_in_loser THEN (-score) * penalty_multiplier ELSE -score

\* mutant: the total is returned without the cap
compute_total_fan_Uncapped(base_fan, kong_count, max_total_fan) ==
    base_fan + kong_count

compute_total_fan(base_fan, kong_count, max_total_fan) ==
    Min(base_fan + kong_count, max_total_fan)

\* mutant: a loss is rewarded like a gain of the same size
compute_utility_AbsReward(profit, missed_hu, deal_in_as_loser) ==
    Isqrt(100 * Abs(profit))
        - (IF missed_hu THEN 2 ELSE 0) - (IF deal_in_as_loser THEN 5 ELSE 0)

\* utility in tenths: sqrt(profit) is Isqrt(100 * profit) / 10
compute_utility(profit, missed_hu, deal_in_as_loser) ==
    LET reward == IF profit > 0 THEN Isqrt(100 * profit)
                  ELSE IF profit < 0 THEN -Isqrt(100 * Abs(profit))
                  ELSE 0
    IN  reward - (IF missed_hu THEN 2 ELSE 0) - (IF deal_in_as_loser THEN 5 ELSE 0)

can_complete_hand(hand_quality, u) == u < hand_quality

\* mutant: the risk is returned as it came, in 1/400
adjust_risk_Unadjusted(base_risk, num_def_players) == base_risk * 40

\* base_risk * (1 - (num_def / 4) * 0.3), in 1/400 for base_risk in tenths
adjust_risk_for_composition(base_risk, num_def_players) ==
    base_risk * (40 - 3 * num_def_players)

\* mutant: the growth factor rises with the number of DEF players
adjust_fan_growth_Reversed(base_fan, num_def_players) ==
    Min((base_fan * (20 + num_def_players)) \div 20, 16)

\* min(int(base_fan * (1 + ((4 - num_def) / 4) * 0.2)), 16)
adjust_fan_growth_for_composition(base_fan, num_def_players) ==
    Min((base_fan * (20 + (4 - num_def_players))) \div 20, 16)

----------------------------------------------------------------------------
(* simulate_table_round *)

num_def_of(ps) == Cardinality({i \in Seats : ps[i].strategy_type = "DEF"})

\* the value self._rng.random() returns for seat i, were it called now
SeatRngDraw(ps, i, rp) ==
    IF ps[i].strategy.kind = "neutral"
    THEN RngValue(ps[i].strategy.param, rp[i])
    ELSE 0

\* one iteration of the per-seat loop: the seat's player_data entry
SeatData(ps, dealer, i, d, rp) ==
    LET num_def == num_def_of(ps)
        R_adjusted == d.base_R * (40 - 3 * num_def)
        can_win == can_complete_hand(d.Q, d.u)
        adjusted_base_fan == adjust_fan_growth_for_composition(d.base_fan, num_def)
        total_fan == compute_total_fan(adjusted_base_fan, d.kong, MAX_TOTAL_FAN)
    IN  IF ~can_win
        THEN [player_idx |-> i, can_win |-> FALSE, strategy_accepts |-> FALSE,
              fan |-> 0, R |-> R_adjusted, Q |-> d.Q, is_dealer |-> (i = dealer)]
        ELSE [player_idx |-> i, can_win |-> TRUE,
              strategy_accepts |->
                  StrategyAccepts(ps[i], total_fan, R_adjusted, SeatRngDraw(ps, i, rp)),
              fan |-> total_fan, R |-> R_adjusted, Q |-> d.Q,
              is_dealer |-> (i = dealer)]

PlayerDataOf(ps, dealer, draws, rp) ==
    [i \in Seats |-> SeatData(ps, dealer, i, draws[i], rp)]

\* mutant: every consulted NeutralPolicy draws from its generator
RngAfter_EveryConsult(ps, pd, rp) ==
    [i \in Seats |->
        IF ps[i].strategy.kind = "neutral" /\ pd[i].can_win THEN rp[i] + 1 ELSE rp[i]]

\* the private generators after the per-seat loop: a NeutralPolicy consulted with
\* risk <= 0.4 and fan < 1 has drawn once
RngAfter(ps, pd, rp) ==
    [i \in Seats |->
        IF /\ ps[i].strategy.kind = "neutral"
           /\ pd[i].can_win
           /\ should_hu_draws(pd[i].fan, pd[i].R)
        THEN rp[i] + 1
        ELSE rp[i]]

\* eligible_winners, as the seat indices in seat order
EligibleWinners(pd) == SelectSeq(SeatSeq, LAMBDA i : pd[i].strategy_accepts)

DealerReady(pd, dealer) ==
    IF dealer < NumSeats THEN pd[dealer].Q >= DEALER_READY_THRESHOLD ELSE FALSE

\* mutant: no seat is ever recorded as having missed its hand
MissedHu_Never(data) == FALSE

MissedHu(data) == data.can_win /\ ~data.strategy_accepts

\* mutant: a draw records no missed hand
DrawResults_NoMissed(pd) ==
    [i \in Seats |->
        [profit |-> 0, utility |-> compute_utility(0, FALSE, FALSE),
         fan |-> 0, won |-> FALSE, deal_in_as_winner |-> FALSE,
         deal_in_as_loser |-> FALSE, missed_hu |-> FALSE]]

\* the results of a round without eligible winners
DrawResults(pd) ==
    [i \in Seats |->
        [profit |-> 0,
         utility |-> compute_utility(0, MissedHu(pd[i]), FALSE),
         fan |-> 0, won |-> FALSE, deal_in_as_winner |-> FALSE,
         deal_in_as_loser |-> FALSE, missed_hu |-> MissedHu(pd[i])]]

\* mutant: the dealer never continues after a draw
DrawMeta_NeverContinues(pd, dealer) ==
    [winner_index |-> None, winner_is_dealer |-> FALSE,
     dealer_ready |-> DealerReady(pd, dealer),
     dealer_continues |-> FALSE, is_draw |-> TRUE]

DrawMeta(pd, dealer) ==
    [winner_index |-> None, winner_is_dealer |-> FALSE,
     dealer_ready |-> DealerReady(pd, dealer),
     dealer_continues |-> DealerReady(pd, dealer), is_draw |-> TRUE]

\* mutant: the winner is drawn uniformly, whatever the fans
WinnerWeights_Uniform(eligible, pd) == [k \in 1 .. Len(eligible) |-> 1]

\* the probabilities handed to np.random.choice for the winner, as numerators
WinnerWeights(eligible, pd) ==
    LET fan_values == [k \in 1 .. Len(eligible) |-> pd[eligible[k]].fan]
        total_weight == SumSeq(fan_values)
    IN  IF total_weight <= 0 THEN [k \in 1 .. Len(eligible) |-> 1]
                             ELSE fan_values

\* np.random.choice(n, p): an index of positive probability
RandomChoice(weights) == {k \in DOMAIN weights : weights[k] > 0}

\* the seats winner can be bound to
WinnerChoices(eligible, pd) ==
    IF Len(eligible) = 1 THEN {eligible[1]}
    ELSE {eligible[k] : k \in RandomChoice(WinnerWeights(eligible, pd))}

\* the non-winning seats, in seat order
LoserSeats(winner) == SelectSeq(SeatSeq, LAMBDA i : i # winner)

\* loser_Rs
LoserRs(pd, winner) ==
    [k \in 1 .. Len(LoserSeats(winner)) |-> pd[LoserSeats(winner)[k]].R]

\* loser_weights / loser_weights.sum() holds NaN when the sum is 0, and
\* np.random.choice then raises ValueError
LoserChoiceRaises(pd, winner) == SumSeq(LoserRs(pd, winner)) = 0

\* the seats loser_player_idx can be bound to
LoserChoices(pd, winner) ==
    {LoserSeats(winner)[k] : k \in RandomChoice(LoserRs(pd, winner))}

\* mutant: the loser is charged and the winner is not credited
DealInProfit_NoCredit(i, winner, loser, loser_profit) ==
    IF i = loser THEN loser_profit ELSE 0

\* round_profits[i] after the deal-in branch
DealInProfit(i, winner, loser, loser_profit) ==
    (IF i = loser THEN loser_profit ELSE 0) - (IF i = winner THEN loser_profit ELSE 0)

\* mutant: the winner collects a share from every seat, itself included
SelfDrawProfit_AllSeats(i, winner, opponent_cost) ==
    IF i = winner THEN 0 - opponent_cost * NumSeats ELSE opponent_cost

\* round_profits[i] after the self-draw branch
SelfDrawProfit(i, winner, opponent_cost) ==
    IF i = winner THEN 0 - opponent_cost * (NumSeats - 1) ELSE opponent_cost

\* the results of a round won by seat winner; loser is read on a deal-in only
WonResults(c, pd, winner, deal_in_occurred, loser) ==
    LET winner_fan == pd[winner].fan
        score == compute_score(winner_fan, c.base_points)
        loser_profit == compute_loser_cost(score, c.penalty_deal_in, TRUE)
        opponent_cost == compute_loser_cost(score, c.penalty_deal_in, FALSE)
        profit(i) == IF deal_in_occurred
                     THEN DealInProfit(i, winner, loser, loser_profit)
                     ELSE SelfDrawProfit(i, winner, opponent_cost)
        dil(i) == deal_in_occurred /\ i = loser
    IN  [i \in Seats |->
            [profit |-> profit(i),
             utility |-> compute_utility(profit(i), MissedHu(pd[i]), dil(i)),
             fan |-> IF i = winner THEN winner_fan ELSE 0,
             won |-> (i = winner),
             deal_in_as_winner |-> (deal_in_occurred /\ i = winner),
             deal_in_as_loser |-> dil(i),
             missed_hu |-> MissedHu(pd[i])]]

\* mutant: the metadata names the dealer as the winner
WonMeta_NamesDealer(pd, winner, dealer) ==
    [winner_index |-> dealer, winner_is_dealer |-> (winner = dealer),
     dealer_ready |-> (pd[dealer].Q >= DEALER_READY_THRESHOLD),
     dealer_continues |-> (winner = dealer), is_draw |-> FALSE]

WonMeta(pd, winner, dealer) ==
    [winner_index |-> winner, winner_is_dealer |-> (winner = dealer),
     dealer_ready |-> (pd[dealer].Q >= DEALER_READY_THRESHOLD),
     dealer_continues |-> (winner = dealer), is_draw |-> FALSE]

Raised == [status |-> "error", results |-> <<>>, meta |-> <<>>]

Returned(res, m) == [status |-> "ok", results |-> res, meta |-> m]

\* every way simulate_table_round can end once the seats' data is drawn
RoundOutcomes(c, dealer, pd) ==
    LET eligible == EligibleWinners(pd)
    IN  IF Len(eligible) = 0
        THEN {Returned(DrawResults(pd), DrawMeta(pd, dealer))}
        ELSE UNION
             { UNION
               { LET deal_in_occurred == rnd < pd[winner].R
                 IN  IF ~deal_in_occurred
                     THEN {Returned(WonResults(c, pd, winner, FALSE, winner),
                                    WonMeta(pd, winner, dealer))}
                     ELSE IF LoserChoiceRaises(pd, winner)
                     THEN {Raised}
                     ELSE {Returned(WonResults(c, pd, winner, TRUE, loser),
                                    WonMeta(pd, winner, dealer))
                             : loser \in LoserChoices(pd, winner)}
                 : rnd \in DealRandSamples }
               : winner \in WinnerChoices(eligible, pd) }

----------------------------------------------------------------------------
(* Configurations and rosters *)

Cfg(bp, pen, rounds) ==
    [base_points |-> bp, penalty_deal_in |-> pen, fan_min |-> 1,
     t_fan_threshold |-> 3, rounds_per_trial |-> rounds]

Rosters(c) ==
    {TablePlayers(k, c) : k \in 0 .. NumSeats}
    \cup {CustomPlayers(DefPlayer(c.fan_min)), CustomPlayers(AggPlayer(c.t_fan_threshold))}

NoRound == [i \in Seats |-> <<>>]

ZeroPerSeat == [i \in Seats |-> 0]

NoSingle == [state |-> "idle"]

NoTally == [unchanged |-> 0, dealer_won |-> 0, ready_draw |-> 0]

NoTrial == [state |-> "idle"]

NoPolicy == [state |-> "idle"]

NoFn == [state |-> "idle"]

----------------------------------------------------------------------------
(* One call of simulate_table_round(players, cfg, dealer_index) *)

Init ==
    /\ cfg \in {Cfg(1, 3, 1), Cfg(2, 0, 1)}
    /\ players \in Rosters(cfg)
    /\ dealer_index \in Seats
    /\ pc = "call"
    /\ player_data = NoRound
    /\ results = NoRound
    /\ meta = <<>>
    /\ rng_pos = ZeroPerSeat
    /\ round_no = 0
    /\ round_dealer = dealer_index
    /\ all_utilities = ZeroPerSeat
    /\ dealer_bucket = <<>>
    /\ non_dealer_bucket = <<>>
    /\ summary = <<>>
    /\ tally = NoTally
    /\ sp = NoSingle
    /\ trial = NoTrial
    /\ pol = NoPolicy
    /\ fn = NoFn

simulate_table_round ==
    /\ pc = "call"
    /\ \E draws \in [Seats -> SeatDraws] :
         LET pd == PlayerDataOf(players, dealer_index, draws, rng_pos)
         IN  /\ player_data' = pd
             /\ rng_pos' = RngAfter(players, pd, rng_pos)
             /\ \E o \in RoundOutcomes(cfg, dealer_index, pd) :
                  /\ results' = o.results
                  /\ meta' = o.meta
                  /\ pc' = IF o.status = "ok" THEN "returned" ELSE "error"
    /\ UNCHANGED <<players, cfg, dealer_index, round_no, round_dealer, all_utilities,
                   dealer_bucket, non_dealer_bucket, summary, tally, sp, trial,
                   pol, fn>>

Next == simulate_table_round

Spec == Init /\ [][Next]_vars

----------------------------------------------------------------------------
(* _run_table(players, cfg, rounds_per_trial, baseline_utility) *)

\* every roster plays a one-round session; two-round sessions are played by a
\* mixed table, an all-defensive table and a table with NeutralPolicy seats, longer
\* sessions by the all-defensive table
SessionRosters(c) ==
    IF c.rounds_per_trial = 1 THEN Rosters(c)
    ELSE IF c.rounds_per_trial = 2
    THEN {TablePlayers(2, c), TablePlayers(NumSeats, c),
          CustomPlayers(DefPlayer(c.fan_min))}
    ELSE {TablePlayers(NumSeats, c)}

InitSession ==
    /\ cfg \in {Cfg(1, 3, r) : r \in 1 .. MaxRounds}
    /\ players \in SessionRosters(cfg)
    /\ dealer_index = 0
    /\ pc = "rounds"
    /\ player_data = NoRound
    /\ results = NoRound
    /\ meta = <<>>
    /\ rng_pos = ZeroPerSeat
    /\ round_no = 0
    /\ round_dealer = 0
    /\ all_utilities = ZeroPerSeat
    /\ dealer_bucket = <<>>
    /\ non_dealer_bucket = <<>>
    /\ summary = <<>>
    /\ tally = NoTally
    /\ sp = NoSingle
    /\ trial = NoTrial
    /\ pol = NoPolicy
    /\ fn = NoFn

\* mutant: a dealer that does not continue hands over to the second seat after it
NextDealer_SkipSeat(dealer, round_meta, player_count) ==
    IF ~round_meta.dealer_continues THEN (dealer + 2) % player_count ELSE dealer

\* mutant: the dealer seat advances after every round
NextDealer_AlwaysAdvance(dealer, round_meta, player_count) ==
    (dealer + 1) % player_count

\* the dealer continuation rule applied after a round
NextDealer(dealer, round_meta, player_count) ==
    IF ~round_meta.dealer_continues THEN (dealer + 1) % player_count ELSE dealer

\* mutant: a seat's outcome is classified by the seat after the dealer
TargetIsDealer_NextSeat(i, dealer) == i = (dealer + 1) % NumSeats

\* target_stats is dealer_round_stats
TargetIsDealer(i, dealer) == i = dealer

\* a bucket's "utilities" list after the seats' results of one round are appended,
\* in seat order; is_dealer_bucket tells which of the two buckets it is
BucketAfter(bucket, res, dealer, is_dealer_bucket) ==
    LET seats == SelectSeq(SeatSeq,
                           LAMBDA i : TargetIsDealer(i, dealer) = is_dealer_bucket)
    IN  bucket \o [k \in 1 .. Len(seats) |-> res[seats[k]].utility]

TallyAfter(t, dealer, res, m) ==
    LET next == NextDealer(dealer, m, NumSeats)
    IN  [unchanged |-> t.unchanged + (IF next = dealer THEN 1 ELSE 0),
         dealer_won |-> t.dealer_won + (IF res[dealer].won THEN 1 ELSE 0),
         ready_draw |-> t.ready_draw
                          + (IF m.is_draw /\ m.dealer_ready THEN 1 ELSE 0)]

\* one iteration of the rounds loop
run_table_round ==
    /\ pc = "rounds"
    /\ round_no < cfg.rounds_per_trial
    /\ \E draws \in [Seats -> SessionDraws(cfg.rounds_per_trial)] :
         LET pd == PlayerDataOf(players, dealer_index, draws, rng_pos)
         IN  /\ rng_pos' = RngAfter(players, pd, rng_pos)
             /\ \E o \in RoundOutcomes(cfg, dealer_index, pd) :
                  IF o.status = "ok"
                  THEN /\ results' = o.results
                       /\ meta' = o.meta
                       /\ all_utilities' =
                              [i \in Seats |-> all_utilities[i] + o.results[i].utility]
                       /\ dealer_bucket' =
                              BucketAfter(dealer_bucket, o.results, dealer_index, TRUE)
                       /\ non_dealer_bucket' =
                              BucketAfter(non_dealer_bucket, o.results, dealer_index,
                                          FALSE)
                       /\ round_dealer' = dealer_index
                       /\ dealer_index' = NextDealer(dealer_index, o.meta, NumSeats)
                       /\ tally' = TallyAfter(tally, dealer_index, o.results, o.meta)
                       /\ round_no' = round_no + 1
                       /\ pc' = "rounds"
                  ELSE /\ pc' = "error"
                       /\ UNCHANGED <<results, meta, all_utilities, dealer_bucket,
                                      non_dealer_bucket, round_dealer, dealer_index,
                                      tally, round_no>>
    /\ UNCHANGED <<players, cfg, player_data, summary, sp, trial, pol, fn>>

\* per_player_stats[i]
PerPlayer(ps, i, utilities) ==
    [player_index |-> i, strategy_type |-> ps[i].strategy_type,
     utility |-> baseline_utility * 10 + utilities[i]]

\* mutant: every seat not labelled DEF enters the aggressive aggregate
LabelStats_ElseAggressive(ps, label, utilities) ==
    LET seats == SelectSeq(SeatSeq,
                           LAMBDA i : IF label = "DEF" THEN ps[i].strategy_type = "DEF"
                                                       ELSE ps[i].strategy_type # "DEF")
    IN  [k \in 1 .. Len(seats) |-> PerPlayer(ps, seats[k], utilities).utility]

\* mutant: every seat's summary enters the aggregate, whatever its label
LabelStats_AllSeats(ps, label, utilities) ==
    [k \in 1 .. NumSeats |-> PerPlayer(ps, k - 1, utilities).utility]

\* the per-seat summaries of the seats labelled label, in seat order
LabelStats(ps, label, utilities) ==
    LET seats == SelectSeq(SeatSeq, LAMBDA i : ps[i].strategy_type = label)
    IN  [k \in 1 .. Len(seats) |-> PerPlayer(ps, seats[k], utilities).utility]

\* the reduction after the rounds loop
run_table_return ==
    /\ pc = "rounds"
    /\ round_no = cfg.rounds_per_trial
    /\ summary' = [defensive |-> LabelStats(players, "DEF", all_utilities),
                   aggressive |-> LabelStats(players, "AGG", all_utilities),
                   dealer |-> dealer_bucket,
                   non_dealer |-> non_dealer_bucket,
                   per_player |-> [i \in Seats |-> PerPlayer(players, i, all_utilities)]]
    /\ pc' = "done"
    /\ UNCHANGED <<players, cfg, dealer_index, player_data, results, meta, rng_pos,
                   round_no, round_dealer, all_utilities, dealer_bucket,
                   non_dealer_bucket, tally, sp, trial, pol, fn>>

NextSession == run_table_round \/ run_table_return

SpecSession == InitSession /\ [][NextSession]_vars

----------------------------------------------------------------------------
(* simulate_round(player_strategy, cfg): the single-player round *)

\* np.random.rand() of the win-type and loss decisions, in tenths
RandSamples == {0, 9}

QSamples == {3, 8}

RSamples == {0, 5}

\* sample_base_fan values and capped sample_kong_events values the round draws from
BaseFanSamples == {0, 2, 13}

KongSamples == {0, 1, 2}

Terminals ==
    {"NO_HAND", "SELF_DRAW_WIN", "DEAL_IN_WIN", "MISSED_NO_LOSS", "MISSED_DEALT_IN"}

\* player_strategy(total_fan) for the threshold strategies run_simulation is given
player_strategy(strategy, total_fan) ==
    IF strategy.kind = "defensive" THEN defensive_strategy(total_fan, strategy.param)
    ELSE aggressive_strategy(total_fan, strategy.param)

Outcome(profit, utility, fan, won, diw, dil, missed) ==
    [profit |-> profit, utility |-> utility, fan |-> fan, won |-> won,
     deal_in_as_winner |-> diw, deal_in_as_loser |-> dil, missed_hu |-> missed]

\* the return value when the hand cannot be completed
NoHandOutcome == Outcome(0, 0, 0, FALSE, FALSE, FALSE, FALSE)

\* the return value after the strategy rejected
RejectOutcome(c, deal_in_as_loser, opponent_base_fan, opponent_kong) ==
    LET opponent_fan == compute_total_fan(opponent_base_fan, opponent_kong, MAX_TOTAL_FAN)
        opponent_score == compute_score(opponent_fan, c.base_points)
        profit == IF deal_in_as_loser
                  THEN compute_loser_cost(opponent_score, c.penalty_deal_in, TRUE)
                  ELSE 0
    IN  Outcome(profit, compute_utility(profit, TRUE, deal_in_as_loser), 0, FALSE,
                FALSE, deal_in_as_loser, TRUE)

\* the return value after the strategy accepted
AcceptOutcome(c, total_fan, deal_in_occurred) ==
    LET score == compute_score(total_fan, c.base_points)
        profit == IF deal_in_occurred
                  THEN compute_winner_profit(score, FALSE, TRUE)
                  ELSE compute_winner_profit(score, TRUE, FALSE)
    IN  Outcome(profit, compute_utility(profit, FALSE, FALSE), total_fan, TRUE,
                deal_in_occurred, FALSE, FALSE)

\* mutant: the hand check never ends the call
AfterHandCheck_NoReturn(can_win) == "HAND_READY"

\* where the call goes after can_complete_hand
AfterHandCheck(can_win) == IF ~can_win THEN "NO_HAND" ELSE "HAND_READY"

\* where the call goes after the strategy answered
AfterStrategyCheck(strategy_accepts) == IF ~strategy_accepts THEN "REJECT" ELSE "ACCEPT"

\* where the call ends after the win-type draw
AfterWinTypeCheck(deal_in_occurred) ==
    IF deal_in_occurred THEN "DEAL_IN_WIN" ELSE "SELF_DRAW_WIN"

\* where the call ends after the loss draw
AfterLossCheck(deal_in_as_loser) ==
    IF deal_in_as_loser THEN "MISSED_DEALT_IN" ELSE "MISSED_NO_LOSS"

Goto(s, state) == [s EXCEPT !.state = state, !.path = Append(s.path, state)]

StartSingle(strategy) ==
    [state |-> "START", strategy |-> strategy, Q |-> 0, R |-> 0, can_win |-> FALSE,
     total_fan |-> 0, strategy_accepts |-> FALSE, opponent_fan |-> None,
     consulted |-> 0, win_draws |-> 0, loss_draws |-> 0, path |-> <<"START">>,
     result |-> <<>>]

InitRound ==
    /\ cfg \in {Cfg(1, 3, 1), Cfg(2, 0, 1)}
    /\ sp \in {StartSingle(DefPlayer(cfg.fan_min).strategy),
               StartSingle(AggPlayer(cfg.t_fan_threshold).strategy)}
    /\ players = TablePlayers(0, cfg)
    /\ dealer_index = 0
    /\ pc = "single"
    /\ player_data = NoRound
    /\ results = NoRound
    /\ meta = <<>>
    /\ rng_pos = ZeroPerSeat
    /\ round_no = 0
    /\ round_dealer = 0
    /\ all_utilities = ZeroPerSeat
    /\ dealer_bucket = <<>>
    /\ non_dealer_bucket = <<>>
    /\ summary = <<>>
    /\ tally = NoTally
    /\ trial = NoTrial
    /\ pol = NoPolicy
    /\ fn = NoFn

\* Q = sample_hand_quality(); R = sample_deal_in_risk()
sr_start ==
    /\ sp.state = "START"
    /\ \E q \in QSamples, r \in RSamples :
         sp' = Goto([sp EXCEPT !.Q = q, !.R = r], "HAND_CHECK")
    /\ UNCHANGED tableVars

\* can_win = can_complete_hand(Q)
sr_hand_check ==
    /\ sp.state = "HAND_CHECK"
    /\ \E u \in RandSamples :
         LET can_win == can_complete_hand(sp.Q, u)
             next == AfterHandCheck(can_win)
         IN  sp' = Goto([sp EXCEPT !.can_win = can_win,
                                   !.result = IF next = "NO_HAND" THEN NoHandOutcome
                                                                  ELSE <<>>],
                        next)
    /\ UNCHANGED tableVars

\* base_fan, kong_count, total_fan
sr_hand_ready ==
    /\ sp.state = "HAND_READY"
    /\ \E f \in BaseFanSamples, k \in KongSamples :
         sp' = Goto([sp EXCEPT !.total_fan = compute_total_fan(f, k, MAX_TOTAL_FAN)],
                    "STRATEGY_CHECK")
    /\ UNCHANGED tableVars

\* strategy_accepts = player_strategy(total_fan)
sr_strategy_check ==
    /\ sp.state = "STRATEGY_CHECK"
    /\ LET accepts == player_strategy(sp.strategy, sp.total_fan)
       IN  sp' = Goto([sp EXCEPT !.strategy_accepts = accepts,
                                 !.consulted = sp.consulted + 1],
                      AfterStrategyCheck(accepts))
    /\ UNCHANGED tableVars

sr_accept ==
    /\ sp.state = "ACCEPT"
    /\ sp' = Goto(sp, "WIN_TYPE_CHECK")
    /\ UNCHANGED tableVars

\* deal_in_occurred = np.random.rand() < R, then the winner's outcome
sr_win_type_check ==
    /\ sp.state = "WIN_TYPE_CHECK"
    /\ \E rnd \in RandSamples :
         LET deal_in_occurred == rnd < sp.R
         IN  sp' = Goto([sp EXCEPT !.win_draws = sp.win_draws + 1,
                                   !.result = AcceptOutcome(cfg, sp.total_fan,
                                                            deal_in_occurred)],
                        AfterWinTypeCheck(deal_in_occurred))
    /\ UNCHANGED tableVars

sr_reject ==
    /\ sp.state = "REJECT"
    /\ sp' = Goto(sp, "LOSS_CHECK")
    /\ UNCHANGED tableVars

\* deal_in_as_loser = np.random.rand() < R, then the opponent's hand and the outcome
sr_loss_check ==
    /\ sp.state = "LOSS_CHECK"
    /\ \E rnd \in RandSamples, f \in BaseFanSamples, k \in KongSamples :
         LET deal_in_as_loser == rnd < sp.R
         IN  sp' = Goto([sp EXCEPT !.loss_draws = sp.loss_draws + 1,
                                   !.opponent_fan =
                                       IF deal_in_as_loser
                                       THEN compute_total_fan(f, k, MAX_TOTAL_FAN)
                                       ELSE None,
                                   !.result = RejectOutcome(cfg, deal_in_as_loser, f, k)],
                        AfterLossCheck(deal_in_as_loser))
    /\ UNCHANGED tableVars

NextRound ==
    \/ sr_start
    \/ sr_hand_check
    \/ sr_hand_ready
    \/ sr_strategy_check
    \/ sr_accept
    \/ sr_win_type_check
    \/ sr_reject
    \/ sr_loss_check

SpecRound == InitRound /\ [][NextRound]_vars

----------------------------------------------------------------------------
(* run_simulation(strategy_fn, cfg, baseline_utility): one single-player trial *)

\* every value one simulate_round(strategy_fn, cfg) call can return
RoundResults(strategy, c) ==
    { IF ~can_complete_hand(q, u) THEN NoHandOutcome
      ELSE LET total_fan == compute_total_fan(f, k, MAX_TOTAL_FAN)
           IN  IF ~player_strategy(strategy, total_fan)
               THEN RejectOutcome(c, rnd < r, of, ok)
               ELSE AcceptOutcome(c, total_fan, rnd < r)
      : q \in QSamples, u \in RandSamples, r \in RSamples,
        f \in BaseFanSamples, k \in KongSamples, rnd \in RandSamples,
        of \in BaseFanSamples, ok \in KongSamples }

StartTrial(strategy) ==
    [state |-> "loop", strategy |-> strategy, rounds |-> 0, profits |-> 0,
     utilities |-> 0, wins |-> 0, ret |-> <<>>]

InitSim ==
    /\ cfg \in {Cfg(1, 3, r) : r \in 1 .. MaxRounds}
    /\ trial \in {StartTrial(DefPlayer(cfg.fan_min).strategy),
                  StartTrial(AggPlayer(cfg.t_fan_threshold).strategy)}
    /\ players = TablePlayers(0, cfg)
    /\ dealer_index = 0
    /\ pc = "trial"
    /\ player_data = NoRound
    /\ results = NoRound
    /\ meta = <<>>
    /\ rng_pos = ZeroPerSeat
    /\ round_no = 0
    /\ round_dealer = 0
    /\ all_utilities = ZeroPerSeat
    /\ dealer_bucket = <<>>
    /\ non_dealer_bucket = <<>>
    /\ summary = <<>>
    /\ tally = NoTally
    /\ sp = NoSingle
    /\ pol = NoPolicy
    /\ fn = NoFn

\* mutant: the summed round utilities are added to the baseline as they are
IncrementalUtility_Unclamped(utilities) == utilities

\* incremental_utility = max(0.0, np.sum(utilities))
IncrementalUtility(utilities) == Max(0, utilities)

\* one iteration of the rounds loop
run_simulation_round ==
    /\ trial.state = "loop"
    /\ trial.rounds < cfg.rounds_per_trial
    /\ \E result \in RoundResults(trial.strategy, cfg) :
         trial' = [trial EXCEPT !.rounds = trial.rounds + 1,
                                !.profits = trial.profits + result.profit,
                                !.utilities = trial.utilities + result.utility,
                                !.wins = trial.wins + (IF result.won THEN 1 ELSE 0)]
    /\ UNCHANGED <<tableVarsOnly, sp, pol, fn>>

\* the reduction after the rounds loop; win_rate = np.mean(wins) as a fraction
run_simulation_return ==
    /\ trial.state = "loop"
    /\ trial.rounds = cfg.rounds_per_trial
    /\ trial' = [trial EXCEPT
                    !.state = "done",
                    !.ret = [profit |-> trial.profits,
                             utility |-> baseline_utility * 10
                                            + IncrementalUtility(trial.utilities),
                             win_rate |-> [num |-> trial.wins, den |-> trial.rounds]]]
    /\ UNCHANGED <<tableVarsOnly, sp, pol, fn>>

NextSim == run_simulation_round \/ run_simulation_return

SpecSim == InitSim /\ [][NextSim]_vars

----------------------------------------------------------------------------
(* NeutralPolicy: instances, their private generators, and should_hu calls *)

MaxCalls == 3

MaxOtherCalls == 1

MaxGlobalDraws == 1

\* two instances built with the same seed, and one more instance
PolicyNames == {"first", "second", "other"}

\* (fan, risk) arguments, risk in 1/400: risk 0.4 and just above, fan 0 and 1
PolicyCalls == {<<0, 160>>, <<0, 161>>, <<1, 160>>}

\* NeutralPolicy(seed): self._rng = random.Random(seed)
NewPolicy(seed) == [seed |-> seed, pos |-> 0, calls |-> <<>>, decisions |-> <<>>]

CallBound(name) == IF name = "other" THEN MaxOtherCalls ELSE MaxCalls

InitPolicy ==
    /\ cfg = Cfg(1, 3, 1)
    /\ \E seed \in {42, 43} :
         pol = [state |-> "live", global_draws |-> 0,
                inst |-> [n \in PolicyNames |->
                             IF n = "other" THEN NewPolicy(44) ELSE NewPolicy(seed)]]
    /\ players = TablePlayers(0, cfg)
    /\ dealer_index = 0
    /\ pc = "policy"
    /\ player_data = NoRound
    /\ results = NoRound
    /\ meta = <<>>
    /\ rng_pos = ZeroPerSeat
    /\ round_no = 0
    /\ round_dealer = 0
    /\ all_utilities = ZeroPerSeat
    /\ dealer_bucket = <<>>
    /\ non_dealer_bucket = <<>>
    /\ summary = <<>>
    /\ tally = NoTally
    /\ sp = NoSingle
    /\ trial = NoTrial
    /\ fn = NoFn

\* mutant: the instances draw from one stream shared with the global source
PolicyDraw_Shared(p) == RngValue(p.seed, (p.pos + pol.global_draws) % 6)

\* the value self._rng.random() returns when instance p calls it next
PolicyDraw(p) == RngValue(p.seed, p.pos)

\* instance p after should_hu(fan, risk) returned
AfterShouldHu(p, fan, risk) ==
    [p EXCEPT !.calls = Append(p.calls, <<fan, risk>>),
              !.decisions = Append(p.decisions, should_hu(fan, risk, PolicyDraw(p))),
              !.pos = p.pos + (IF should_hu_draws(fan, risk) THEN 1 ELSE 0)]

\* one should_hu(fan, risk) call on one instance
policy_should_hu ==
    /\ pol.state = "live"
    /\ \E n \in PolicyNames, c \in PolicyCalls :
         /\ Len(pol.inst[n].calls) < CallBound(n)
         /\ pol' = [pol EXCEPT !.inst[n] = AfterShouldHu(pol.inst[n], c[1], c[2])]
    /\ UNCHANGED <<tableVarsOnly, sp, trial, fn>>

\* a draw from the global random source (random.random(), np.random.rand())
global_random ==
    /\ pol.state = "live"
    /\ pol.global_draws < MaxGlobalDraws
    /\ pol' = [pol EXCEPT !.global_draws = pol.global_draws + 1]
    /\ UNCHANGED <<tableVarsOnly, sp, trial, fn>>

NextPolicy == policy_should_hu \/ global_random

SpecPolicy == InitPolicy /\ [][NextPolicy]_vars

----------------------------------------------------------------------------
(* The strategy, fan and risk functions applied to drawn arguments *)

MaxArg == 5

\* a first argument: a fan, a base fan, or a risk in tenths
FirstArgs == 0 .. MAX_TOTAL_FAN

\* a second argument: a threshold, a kong count, or a number of DEF players
SecondArgs == 0 .. MaxArg

\* a max_total_fan argument
CapArgs == {8, MAX_TOTAL_FAN}

MaxProfit == 24

\* a profit argument in points: every profit up to MaxProfit either way, where the
\* utility's tenths still tell neighbouring profits apart, and the profits 100 and
\* -50
ProfitArgs == ((0 - MaxProfit) .. MaxProfit) \cup {-50, 100}

\* the arguments drawn: numeric ones, numeric ones with two flags, or a profit with
\* two flags
FnArgs ==
    [state : {"args"}, op : {"none"}, a : FirstArgs, b : SecondArgs, cap : CapArgs,
     p : {0}, f1 : {FALSE}, f2 : {FALSE}, out : {None}]
    \cup [state : {"args"}, op : {"none"}, a : FirstArgs, b : SecondArgs,
          cap : {MAX_TOTAL_FAN}, p : {0}, f1 : BOOLEAN, f2 : BOOLEAN, out : {None}]
    \cup [state : {"args"}, op : {"none"}, a : {0}, b : {0}, cap : {MAX_TOTAL_FAN},
          p : ProfitArgs, f1 : BOOLEAN, f2 : BOOLEAN, out : {None}]

InitFn ==
    /\ cfg = Cfg(1, 3, 1)
    /\ fn \in FnArgs
    /\ players = TablePlayers(0, cfg)
    /\ dealer_index = 0
    /\ pc = "fn"
    /\ player_data = NoRound
    /\ results = NoRound
    /\ meta = <<>>
    /\ rng_pos = ZeroPerSeat
    /\ round_no = 0
    /\ round_dealer = 0
    /\ all_utilities = ZeroPerSeat
    /\ dealer_bucket = <<>>
    /\ non_dealer_bucket = <<>>
    /\ summary = <<>>
    /\ tally = NoTally
    /\ sp = NoSingle
    /\ trial = NoTrial
    /\ pol = NoPolicy

Applied(op, out) == [fn EXCEPT !.state = "done", !.op = op, !.out = out]

apply_defensive_strategy ==
    /\ fn.state = "args"
    /\ fn' = Applied("defensive_strategy", defensive_strategy(fn.a, fn.b))
    /\ UNCHANGED <<tableVarsOnly, sp, trial, pol>>

apply_aggressive_strategy ==
    /\ fn.state = "args"
    /\ fn' = Applied("aggressive_strategy", aggressive_strategy(fn.a, fn.b))
    /\ UNCHANGED <<tableVarsOnly, sp, trial, pol>>

apply_compute_total_fan ==
    /\ fn.state = "args"
    /\ fn' = Applied("compute_total_fan", compute_total_fan(fn.a, fn.b, fn.cap))
    /\ UNCHANGED <<tableVarsOnly, sp, trial, pol>>

\* num_def_players ranges over 0..4
apply_adjust_fan_growth_for_composition ==
    /\ fn.state = "args"
    /\ fn.b <= NumSeats
    /\ fn' = Applied("adjust_fan_growth_for_composition",
                     adjust_fan_growth_for_composition(fn.a, fn.b))
    /\ UNCHANGED <<tableVarsOnly, sp, trial, pol>>

\* base_risk ranges over 0.0 .. 1.0 in tenths, num_def_players over 0..4
apply_adjust_risk_for_composition ==
    /\ fn.state = "args"
    /\ fn.a <= 10
    /\ fn.b <= NumSeats
    /\ fn' = Applied("adjust_risk_for_composition",
                     adjust_risk_for_composition(fn.a, fn.b))
    /\ UNCHANGED <<tableVarsOnly, sp, trial, pol>>

\* score = a, is_self_draw = f1, deal_in_occurred = f2
apply_compute_winner_profit ==
    /\ fn.state = "args"
    /\ fn' = Applied("compute_winner_profit", compute_winner_profit(fn.a, fn.f1, fn.f2))
    /\ UNCHANGED <<tableVarsOnly, sp, trial, pol>>

\* score = a, penalty_multiplier = b, is_deal_in_loser = f1
apply_compute_loser_cost ==
    /\ fn.state = "args"
    /\ fn' = Applied("compute_loser_cost", compute_loser_cost(fn.a, fn.b, fn.f1))
    /\ UNCHANGED <<tableVarsOnly, sp, trial, pol>>

\* profit = p, missed_hu = f1, deal_in_as_loser = f2
apply_compute_utility ==
    /\ fn.state = "args"
    /\ fn' = Applied("compute_utility", compute_utility(fn.p, fn.f1, fn.f2))
    /\ UNCHANGED <<tableVarsOnly, sp, trial, pol>>

NextFn ==
    \/ apply_defensive_strategy
    \/ apply_aggressive_strategy
    \/ apply_compute_total_fan
    \/ apply_adjust_fan_growth_for_composition
    \/ apply_adjust_risk_for_composition
    \/ apply_compute_winner_profit
    \/ apply_compute_loser_cost
    \/ apply_compute_utility

SpecFn == InitFn /\ [][NextFn]_vars

----------------------------------------------------------------------------
(* Properties *)

SeatProfits(res) == [k \in 1 .. NumSeats |-> res[k - 1].profit]

Winners(res) == {i \in Seats : res[i].won}

EligibleSeats(pd) == {i \in Seats : pd[i].can_win /\ pd[i].strategy_accepts}

OthersProfit(res, w) == SumSeq(SeatProfits(res)) - res[w].profit

\* C1: in every round simulate_table_round returns (draw, self-draw win or deal-in
\* win) the four seats' profits sum to 0, and the winner's profit is the negated sum
\* of the profits charged to the other seats.
C1_ZeroSum ==
    pc = "returned" =>
        /\ SumSeq(SeatProfits(results)) = 0
        /\ \A w \in Winners(results) : results[w].profit = -OthersProfit(results, w)

\* a deal-in win in which money changed hands
C1_Witness ==
    /\ pc = "returned"
    /\ \E w \in Seats, l \in Seats :
         /\ results[w].won /\ results[w].deal_in_as_winner /\ results[w].profit > 0
         /\ results[l].deal_in_as_loser /\ results[l].profit < 0

\* the dealer seat after the last completed round of a session won the round
DealerSeatWon == results[round_dealer].won

\* C2 as claimed: after each round of a session the dealer seat is unchanged iff the
\* seat that was dealer won the round, otherwise it is (seat + 1) mod N; so the rounds
\* with the dealer unchanged are as many as the rounds won by the dealer seat.
C2_Original ==
    round_no > 0 =>
        /\ (dealer_index = round_dealer) <=> DealerSeatWon
        /\ ~DealerSeatWon => dealer_index = (round_dealer + 1) % NumSeats
        /\ tally.unchanged = tally.dealer_won

\* the last completed round was a draw and the dealer was ready
ReadyDraw == Winners(results) = {} /\ meta.is_draw /\ meta.dealer_ready

\* C2 amended: after each round of a session the dealer seat is unchanged iff the seat
\* that was dealer won the round or the round was a draw with the dealer ready
\* (its Q >= 0.6), otherwise it is (seat + 1) mod N; so the rounds with the dealer
\* unchanged are as many as the rounds won by the dealer seat plus the ready draws.
C2_DealerRule ==
    round_no > 0 =>
        /\ (dealer_index = round_dealer) <=> (DealerSeatWon \/ ReadyDraw)
        /\ ~(DealerSeatWon \/ ReadyDraw) => dealer_index = (round_dealer + 1) % NumSeats
        /\ tally.unchanged = tally.dealer_won + tally.ready_draw

\* a session in which the dealer kept the seat after a draw and lost it in another round
C2_Witness ==
    /\ round_no = 2
    /\ ReadyDraw
    /\ dealer_index = round_dealer
    /\ dealer_index = 1
    /\ tally.ready_draw = 1
    /\ tally.unchanged = 1

\* C3: dealer_continues is true iff the dealer's own seat won when the round has a
\* winner, and in a draw iff the dealer seat's own Q >= 0.6; winner_is_dealer is true
\* iff winner_index equals dealer_index and is false in a draw.
C3_DealerFlags ==
    pc = "returned" =>
        /\ Winners(results) # {} =>
             /\ meta.dealer_continues = results[dealer_index].won
             /\ meta.winner_index \in Winners(results)
             /\ meta.winner_is_dealer = (meta.winner_index = dealer_index)
             /\ ~meta.is_draw
        /\ Winners(results) = {} =>
             /\ meta.dealer_continues =
                    (player_data[dealer_index].Q >= DEALER_READY_THRESHOLD)
             /\ meta.dealer_ready = meta.dealer_continues
             /\ meta.winner_is_dealer = FALSE
             /\ meta.is_draw

\* a draw after which the dealer continues, the dealer's hand not having completed
C3_Witness ==
    /\ pc = "returned"
    /\ meta.is_draw
    /\ meta.dealer_continues
    /\ ~player_data[dealer_index].can_win

\* C4: every per-seat outcome of simulate_table_round satisfies won => fan > 0 and
\* not won => fan = 0, for every player variant.
C4_WonIffFan ==
    pc = "returned" =>
        \A i \in Seats :
            /\ results[i].won => results[i].fan > 0
            /\ ~results[i].won => results[i].fan = 0

\* C5: in the per-seat summary of a table session a seat's utility equals
\* baseline_utility + max(0, sum of its per-round utilities), so it is never below
\* baseline_utility.
C5_UtilityFloor ==
    pc = "done" =>
        \A i \in Seats :
            /\ summary.per_player[i].utility
                   = baseline_utility * 10 + Max(0, all_utilities[i])
            /\ summary.per_player[i].utility >= baseline_utility * 10

\* C6: the winner, if any, is one of the eligible seats (hand completable and
\* strategy accepted), there is a winner exactly when a seat is eligible, and an
\* eligible seat with fan 0 is never picked while another eligible seat has fan > 0.
C6_WinnerEligible ==
    pc = "returned" =>
        LET elig == EligibleSeats(player_data)
        IN  /\ (elig = {}) <=> meta.is_draw
            /\ elig # {} =>
                 /\ meta.winner_index \in elig
                 /\ Winners(results) = {meta.winner_index}
                 /\ player_data[meta.winner_index].fan = 0 =>
                        \A j \in elig : player_data[j].fan = 0

\* the uniform fallback: all eligible fans are 0 and a seat other than the first
\* eligible one was picked
C6_Witness ==
    /\ pc = "returned"
    /\ ~meta.is_draw
    /\ Cardinality(EligibleSeats(player_data)) >= 2
    /\ player_data[meta.winner_index].fan = 0
    /\ \E j \in EligibleSeats(player_data) : j < meta.winner_index

\* C7: a deal-in win always resolves with exactly one paying loser and no error,
\* also when the three candidates' weights sum to zero.
C7_DealInResolves ==
    /\ pc # "error"
    /\ (pc = "returned" /\ \E w \in Seats : results[w].deal_in_as_winner) =>
           Cardinality({i \in Seats : results[i].deal_in_as_loser}) = 1

\* C8: when no seat is eligible the round is a draw: every seat has profit 0,
\* won = false, fan = 0 and no deal-in flag; missed_hu is true exactly for the seats
\* whose hand was completable but whose strategy rejected; utility is -0.2 for those
\* seats and 0 for the others; winner_index = None, winner_is_dealer = false and
\* is_draw = true.
C8_Draw ==
    (pc = "returned" /\ EligibleSeats(player_data) = {}) =>
        /\ \A i \in Seats :
             /\ results[i].profit = 0
             /\ ~results[i].won
             /\ results[i].fan = 0
             /\ ~results[i].deal_in_as_winner
             /\ ~results[i].deal_in_as_loser
             /\ results[i].missed_hu
                    = (player_data[i].can_win /\ ~player_data[i].strategy_accepts)
             /\ results[i].utility = IF results[i].missed_hu THEN -2 ELSE 0
        /\ meta.winner_index = None
        /\ meta.winner_is_dealer = FALSE
        /\ meta.is_draw = TRUE

\* a draw with a seat that missed its hand and a seat that did not
C8_Witness ==
    /\ pc = "returned"
    /\ EligibleSeats(player_data) = {}
    /\ \E i \in Seats, j \in Seats :
         /\ results[i].missed_hu /\ results[i].utility = -2
         /\ ~results[j].missed_hu /\ results[j].utility = 0

\* C9: for every valid configuration (base_points >= 1, penalty_deal_in >= 0) the
\* seat that wins a table round, by self-draw or by deal-in, has strictly positive
\* profit and strictly positive utility.
C9_WinnerPositive ==
    pc = "returned" =>
        \A i \in Seats :
            results[i].won => (results[i].profit > 0 /\ results[i].utility > 0)

AllowedPaths ==
    { <<"START", "HAND_CHECK", "NO_HAND">>,
      <<"START", "HAND_CHECK", "HAND_READY", "STRATEGY_CHECK", "ACCEPT",
        "WIN_TYPE_CHECK", "SELF_DRAW_WIN">>,
      <<"START", "HAND_CHECK", "HAND_READY", "STRATEGY_CHECK", "ACCEPT",
        "WIN_TYPE_CHECK", "DEAL_IN_WIN">>,
      <<"START", "HAND_CHECK", "HAND_READY", "STRATEGY_CHECK", "REJECT",
        "LOSS_CHECK", "MISSED_NO_LOSS">>,
      <<"START", "HAND_CHECK", "HAND_READY", "STRATEGY_CHECK", "REJECT",
        "LOSS_CHECK", "MISSED_DEALT_IN">> }

IsPrefix(p, q) == Len(p) <= Len(q) /\ p = SubSeq(q, 1, Len(p))

\* C10: every simulate_round call ends in exactly one of the five terminal states,
\* reached only along the stated path: the call is always on a prefix of one of the
\* five paths and moves on until it is at a terminal state, where it stops; the
\* strategy is consulted only after the hand was found completable, the win-type
\* draw happens only after the strategy accepted, the loss draw only after it
\* rejected.
C10_Paths ==
    /\ \E q \in AllowedPaths : IsPrefix(sp.path, q)
    /\ sp.state = sp.path[Len(sp.path)]
    /\ (sp.state \in Terminals) <=> (sp.path \in AllowedPaths)
    /\ (sp.state \in Terminals) <=> ~(ENABLED NextRound)
    /\ sp.consulted > 0 => (sp.can_win /\ sp.consulted = 1)
    /\ sp.win_draws > 0 =>
           (sp.consulted = 1 /\ sp.strategy_accepts /\ sp.win_draws = 1
            /\ sp.loss_draws = 0)
    /\ sp.loss_draws > 0 =>
           (sp.consulted = 1 /\ ~sp.strategy_accepts /\ sp.loss_draws = 1
            /\ sp.win_draws = 0)

\* a call that ended dealt in after the strategy rejected a completable hand
C10_Witness ==
    /\ sp.state = "MISSED_DEALT_IN"
    /\ sp.can_win
    /\ sp.consulted = 1
    /\ sp.loss_draws = 1
    /\ sp.result.deal_in_as_loser

\* C11: the outcome of simulate_round is fixed by its terminal state: NO_HAND gives
\* profit 0, utility 0, fan 0 and every flag false; a rejection gives missed_hu,
\* not won, fan 0 and profit 0 unless deal_in_as_loser, when the profit is
\* -(penalty_deal_in * base_points * 2^f) for the capped fan f of the sampled opponent
\* hand; an acceptance gives won, not missed_hu, the player's total fan, and profit
\* 3 * score on self-draw or score on deal-in.
C11_OutcomeByTerminal ==
    LET r == sp.result
        score == cfg.base_points * (2 ^ sp.total_fan)
    IN  /\ sp.state = "NO_HAND" =>
              r = [profit |-> 0, utility |-> 0, fan |-> 0, won |-> FALSE,
                   deal_in_as_winner |-> FALSE, deal_in_as_loser |-> FALSE,
                   missed_hu |-> FALSE]
        /\ sp.state \in {"MISSED_NO_LOSS", "MISSED_DEALT_IN"} =>
              /\ r.missed_hu /\ ~r.won /\ r.fan = 0 /\ ~r.deal_in_as_winner
              /\ r.deal_in_as_loser = (sp.state = "MISSED_DEALT_IN")
              /\ ~r.deal_in_as_loser => (r.profit = 0 /\ sp.opponent_fan = None)
              /\ r.deal_in_as_loser =>
                     /\ sp.opponent_fan \in 0 .. MAX_TOTAL_FAN
                     /\ r.profit = -(cfg.penalty_deal_in * cfg.base_points
                                       * (2 ^ sp.opponent_fan))
        /\ sp.state \in {"SELF_DRAW_WIN", "DEAL_IN_WIN"} =>
              /\ r.won /\ ~r.missed_hu /\ ~r.deal_in_as_loser
              /\ r.fan = sp.total_fan
              /\ r.deal_in_as_winner = (sp.state = "DEAL_IN_WIN")
              /\ r.profit = IF sp.state = "DEAL_IN_WIN" THEN score ELSE 3 * score

\* a rejected 0-fan hand dealt into an opponent hand of 15 fan
C11_Witness ==
    /\ sp.state = "MISSED_DEALT_IN"
    /\ sp.total_fan = 0
    /\ sp.opponent_fan = 15
    /\ cfg.penalty_deal_in = 3
    /\ sp.result.profit = -(3 * 32768)

\* C12: a run_simulation trial of rounds_per_trial >= 1 rounds returns utility
\* baseline_utility + max(0, sum of the round utilities), so at least
\* baseline_utility, and a win_rate between 0 and 1 inclusive.
C12_TrialFloor ==
    trial.state = "done" =>
        /\ cfg.rounds_per_trial >= 1
        /\ trial.ret.utility = baseline_utility * 10 + Max(0, trial.utilities)
        /\ trial.ret.utility >= baseline_utility * 10
        /\ trial.ret.win_rate.den = cfg.rounds_per_trial
        /\ 0 <= trial.ret.win_rate.num
        /\ trial.ret.win_rate.num <= trial.ret.win_rate.den

\* a trial whose round utilities sum below zero and that won no round
C12_Witness ==
    /\ trial.state = "done"
    /\ trial.utilities < 0
    /\ trial.ret.utility = baseline_utility * 10
    /\ trial.ret.win_rate.num = 0

\* the last n entries of a sequence
LastN(s, n) == SubSeq(s, Len(s) - n + 1, Len(s))

\* the utilities of the seats other than d, in seat order
OtherUtilities(res, d) ==
    LET seats == SelectSeq(SeatSeq, LAMBDA i : i # d)
    IN  [k \in 1 .. Len(seats) |-> res[seats[k]].utility]

\* C13: in each round of a table session exactly one seat's outcome, that of the seat
\* that is dealer at the start of the round (before the rotation for that round), is
\* added to the dealer bucket and the other three seats' outcomes to the non-dealer
\* bucket; after k rounds the dealer bucket holds k outcomes and the non-dealer
\* bucket 3k.
C13_Buckets ==
    pc \in {"rounds", "done"} =>
        /\ Len(dealer_bucket) = round_no
        /\ Len(non_dealer_bucket) = 3 * round_no
        /\ round_no > 0 =>
              /\ LastN(dealer_bucket, 1) = <<results[round_dealer].utility>>
              /\ LastN(non_dealer_bucket, 3) = OtherUtilities(results, round_dealer)

\* two rounds played, the dealer seat having rotated after the first, the second
\* round's dealer outcome differing from every other seat's
C13_Witness ==
    /\ round_no = 2
    /\ round_dealer = 1
    /\ dealer_index = 2
    /\ Len(dealer_bucket) = 2
    /\ \A i \in Seats \ {round_dealer} :
           results[i].utility # results[round_dealer].utility

\* C14: simulate_table(composition = k, cfg), k in 0..4, seats k DEF players followed
\* by 4 - k AGG players; the defensive aggregate then has exactly k per-seat entries
\* and the aggressive one 4 - k, so k = 4 gives an empty aggressive aggregate and a
\* non-empty defensive one, and k = 0 the reverse.
C14_LabelAggregates ==
    \A k \in 0 .. NumSeats :
        (pc = "done" /\ players = TablePlayers(k, cfg)) =>
            /\ \A i \in Seats :
                   players[i].strategy_type = (IF i < k THEN "DEF" ELSE "AGG")
            /\ Len(summary.defensive) = k
            /\ Len(summary.aggressive) = NumSeats - k
            /\ k = NumSeats => (summary.aggressive = <<>> /\ summary.defensive # <<>>)
            /\ k = 0 => (summary.defensive = <<>> /\ summary.aggressive # <<>>)

\* an all-defensive table's session has ended
C14_Witness ==
    /\ pc = "done"
    /\ players = TablePlayers(NumSeats, cfg)
    /\ summary.aggressive = <<>>
    /\ Len(summary.defensive) = NumSeats

\* C15: two NeutralPolicy instances built with the same seed return identical
\* decision sequences for identical sequences of should_hu(fan, risk) calls, whatever
\* was drawn from the global random source and whatever calls another instance got.
C15_Reproducible ==
    pol.state = "live" =>
        LET a == pol.inst["first"]
            b == pol.inst["second"]
        IN  /\ a.seed = b.seed
            /\ \A m \in 0 .. Min(Len(a.calls), Len(b.calls)) :
                   SubSeq(a.calls, 1, m) = SubSeq(b.calls, 1, m) =>
                       SubSeq(a.decisions, 1, m) = SubSeq(b.decisions, 1, m)

\* both instances got the same three calls, one of them rejected, with a global draw
\* and a call to the other instance in between
C15_Witness ==
    /\ pol.state = "live"
    /\ Len(pol.inst["first"].calls) = 3
    /\ pol.inst["first"].calls = pol.inst["second"].calls
    /\ \E m \in 1 .. 3 : ~pol.inst["first"].decisions[m]
    /\ pol.global_draws = 1
    /\ Len(pol.inst["other"].calls) = 1

\* the calls among the first m of a call sequence made with risk <= 0.4 and fan < 1
LowCalls(calls, m) == {j \in 1 .. m : calls[j][2] <= 160 /\ calls[j][1] < 1}

C17_Thresholds ==
    /\ fn.state = "done" /\ fn.op = "defensive_strategy" =>
           /\ fn.out \in BOOLEAN
           /\ fn.out <=> ~(fn.a < fn.b)
    /\ fn.state = "done" /\ fn.op = "aggressive_strategy" =>
           /\ fn.out \in BOOLEAN
           /\ fn.out <=> ~(fn.a < fn.b)

\* defensive_strategy accepted a fan exactly at a fan_min of 3
C17_Witness ==
    /\ fn.state = "done"
    /\ fn.op = "defensive_strategy"
    /\ fn.a = 3 /\ fn.b = 3
    /\ fn.out = TRUE

C19_FanGrowth ==
    (fn.state = "done" /\ fn.op = "adjust_fan_growth_for_composition") =>
        LET grown20 == fn.a * (20 + (4 - fn.b))     \* 20 times the grown fan
        IN  /\ grown20 >= 20 * 16 => fn.out = 16
            /\ grown20 < 20 * 16 =>
                   (20 * fn.out <= grown20 /\ grown20 < 20 * (fn.out + 1))
            /\ fn.b = 4 => fn.out = fn.a
            /\ fn.out >= fn.a
            /\ fn.out <= 16
            /\ \A more \in 0 .. 4 :
                   more >= fn.b =>
                       adjust_fan_growth_for_composition(fn.a, more) <= fn.out
            /\ (fn.a = 10 /\ fn.b = 0) => fn.out > 10

\* a base fan of 10 grown to 12 on a table without DEF players
C19_Witness ==
    /\ fn.state = "done"
    /\ fn.op = "adjust_fan_growth_for_composition"
    /\ fn.a = 10 /\ fn.b = 0
    /\ fn.out = 12

\* C20 as claimed: adjust_risk_for_composition(R, num_def) equals
\* R * (1 - 0.3 * num_def / 4) for R in [0, 1] and num_def in 0..4: it returns R when
\* num_def = 0 and 0.7 * R when num_def = 4, and is strictly decreasing in num_def.
C20_Original ==
    (fn.state = "done" /\ fn.op = "adjust_risk_for_composition") =>
        /\ 10 * fn.out = fn.a * (400 - 30 * fn.b)
        /\ fn.b = 0 => fn.out = 40 * fn.a
        /\ fn.b = 4 => fn.out = 28 * fn.a
        /\ \A more \in 0 .. 4 :
               more > fn.b => adjust_risk_for_composition(fn.a, more) < fn.out

\* C20 amended: adjust_risk_for_composition(R, num_def) equals
\* R * (1 - 0.3 * num_def / 4) for R in [0, 1] and num_def in 0..4: it returns R when
\* num_def = 0 and 0.7 * R when num_def = 4; it is strictly decreasing in num_def
\* for R > 0 and returns 0 for every num_def when R = 0.
C20_RiskAdjust ==
    (fn.state = "done" /\ fn.op = "adjust_risk_for_composition") =>
        /\ 10 * fn.out = fn.a * (400 - 30 * fn.b)
        /\ fn.b = 0 => fn.out = 40 * fn.a
        /\ fn.b = 4 => fn.out = 28 * fn.a
        /\ fn.a > 0 =>
               \A more \in 0 .. 4 :
                   more > fn.b => adjust_risk_for_composition(fn.a, more) < fn.out
        /\ fn.a = 0 =>
               \A more \in 0 .. 4 : adjust_risk_for_composition(fn.a, more) = 0

\* a risk of 0.5 adjusted to 0.35 on an all-DEF table
C20_Witness ==
    /\ fn.state = "done"
    /\ fn.op = "adjust_risk_for_composition"
    /\ fn.a = 5 /\ fn.b = 4
    /\ fn.out = 140

\* C21: compute_winner_profit(score, is_self_draw, deal_in_occurred) returns
\* 3 * score when is_self_draw is true, score when is_self_draw is false and
\* deal_in_occurred is true, and 3 * score when neither flag is set.
C21_WinnerProfit ==
    (fn.state = "done" /\ fn.op = "compute_winner_profit") =>
        /\ fn.f1 => fn.out = 3 * fn.a
        /\ (~fn.f1 /\ fn.f2) => fn.out = fn.a
        /\ (~fn.f1 /\ ~fn.f2) => fn.out = 3 * fn.a

\* a call with neither flag set, paid 30 on a score of 10
C21_Witness ==
    /\ fn.state = "done"
    /\ fn.op = "compute_winner_profit"
    /\ fn.a = 10 /\ ~fn.f1 /\ ~fn.f2
    /\ fn.out = 30

\* C22: compute_loser_cost(score, penalty_multiplier, is_deal_in_loser) returns
\* -(score * penalty_multiplier) when is_deal_in_loser is true and -score otherwise,
\* and the result is <= 0 for every score >= 0 and penalty_multiplier >= 0.
C22_LoserCost ==
    (fn.state = "done" /\ fn.op = "compute_loser_cost") =>
        /\ fn.f1 => fn.out + fn.a * fn.b = 0
        /\ ~fn.f1 => fn.out + fn.a = 0
        /\ (fn.a >= 0 /\ fn.b >= 0) => fn.out <= 0

\* a deal-in loser charged 30 on a score of 10 with a multiplier of 3
C22_Witness ==
    /\ fn.state = "done"
    /\ fn.op = "compute_loser_cost"
    /\ fn.a = 10 /\ fn.b = 3 /\ fn.f1
    /\ fn.out = -30

\* r is g(p) in tenths rounded toward zero: sqrt(p) for p > 0, -sqrt(|p|) for p < 0,
\* 0 for p = 0
IsReward(r, p) ==
    /\ p > 0 => (r > 0 /\ r * r <= 100 * p /\ 100 * p < (r + 1) * (r + 1))
    /\ p < 0 => (r < 0 /\ r * r <= 100 * (0 - p) /\ 100 * (0 - p) < (1 - r) * (1 - r))
    /\ p = 0 => r = 0

\* C23: compute_utility(profit, missed_hu, deal_in_as_loser) equals g(profit) minus
\* 0.2 if missed_hu minus 0.5 if deal_in_as_loser, g(p) being sqrt(p) for p > 0,
\* -sqrt(|p|) for p < 0 and 0 for p = 0; the two penalties are independent and
\* additive, and for fixed flags the result is strictly increasing in profit.
C23_Utility ==
    (fn.state = "done" /\ fn.op = "compute_utility") =>
        LET penalties == (IF fn.f1 THEN 2 ELSE 0) + (IF fn.f2 THEN 5 ELSE 0)
        IN  /\ IsReward(fn.out + penalties, fn.p)
            /\ fn.out = compute_utility(fn.p, FALSE, FALSE) - penalties
            /\ compute_utility(fn.p, TRUE, TRUE) - compute_utility(fn.p, FALSE, TRUE)
                   = compute_utility(fn.p, TRUE, FALSE)
                         - compute_utility(fn.p, FALSE, FALSE)
            /\ \A q \in ProfitArgs :
                   q > fn.p => compute_utility(q, fn.f1, fn.f2) > fn.out

\* a profit of 100 with a missed hand: 10 - 0.2
C23_Witness ==
    /\ fn.state = "done"
    /\ fn.op = "compute_utility"
    /\ fn.p = 100 /\ fn.f1 /\ ~fn.f2
    /\ fn.out = 98

\* C24: in a table session the dealer seat is 0 in the first round, is always an
\* index in [0, N), and between two consecutive rounds either stays the same or
\* moves to (seat + 1) mod N; it never skips a seat and never moves backwards.
C24_DealerWalk ==
    /\ [](/\ dealer_index \in Seats
          /\ round_no = 0 => dealer_index = 0
          /\ round_no = 1 => round_dealer = 0
          /\ round_no > 0 =>
                 dealer_index \in {round_dealer, (round_dealer + 1) % NumSeats}
          /\ \A d \in Seats, c \in BOOLEAN :
                 NextDealer(d, [dealer_continues |-> c], NumSeats)
                     \in Seats \cap {d, (d + 1) % NumSeats})
    /\ [][dealer_index' \in {dealer_index, (dealer_index + 1) % NumSeats}]_vars

\* the dealer seat moved from 0 to 1 and from 1 to 2 in two rounds
C24_Witness ==
    /\ round_no = 2
    /\ round_dealer = 1
    /\ dealer_index = 2

\* C25: in a table round with a winner, on a deal-in exactly one non-winning seat has
\* deal_in_as_loser and profit -(penalty_deal_in * score), the winner has
\* deal_in_as_winner and profit +(penalty_deal_in * score), and the other two seats
\* have profit 0; on a self-draw no seat has a deal-in flag, each non-winning seat
\* has profit -score and the winner +3 * score; score = base_points * 2^(winner's
\* fan).
C25_Payments ==
    (pc = "returned" /\ ~meta.is_draw) =>
        LET w == meta.winner_index
            score == cfg.base_points * (2 ^ results[w].fan)
            paying == {i \in Seats : results[i].deal_in_as_loser}
        IN  /\ results[w].won
            /\ results[w].deal_in_as_winner =>
                   /\ Cardinality(paying) = 1
                   /\ w \notin paying
                   /\ \A i \in paying :
                          results[i].profit = 0 - cfg.penalty_deal_in * score
                   /\ results[w].profit = cfg.penalty_deal_in * score
                   /\ \A i \in Seats \ (paying \cup {w}) : results[i].profit = 0
                   /\ \A i \in Seats \ {w} : ~results[i].deal_in_as_winner
            /\ ~results[w].deal_in_as_winner =>
                   /\ \A i \in Seats :
                          ~results[i].deal_in_as_winner /\ ~results[i].deal_in_as_loser
                   /\ \A i \in Seats \ {w} : results[i].profit = 0 - score
                   /\ results[w].profit = 3 * score

\* a deal-in win on 3 fan: the loser pays 24, the winner gets 24
C25_Witness ==
    /\ pc = "returned"
    /\ ~meta.is_draw
    /\ results[meta.winner_index].deal_in_as_winner
    /\ results[meta.winner_index].fan = 3
    /\ results[meta.winner_index].profit = 24
    /\ \E i \in Seats : results[i].deal_in_as_loser /\ results[i].profit = -24

\* C26: in every table round at most one seat has won; when at least one seat is
\* eligible exactly one seat has won and it is the seat named by winner_index; an
\* eligible seat that was not selected is recorded as a non-winner with fan 0 and
\* missed_hu false.
C26_OneWinner ==
    pc = "returned" =>
        /\ Cardinality(Winners(results)) <= 1
        /\ EligibleSeats(player_data) # {} =>
               /\ Cardinality(Winners(results)) = 1
               /\ Winners(results) = {meta.winner_index}
               /\ \A i \in EligibleSeats(player_data) \ {meta.winner_index} :
                      /\ ~results[i].won
                      /\ results[i].fan = 0
                      /\ ~results[i].missed_hu

\* three seats were eligible with a hand of 3 fan or more and two of them were not
\* selected
C26_Witness ==
    /\ pc = "returned"
    /\ Cardinality({i \in EligibleSeats(player_data) : player_data[i].fan >= 3}) = 3
    /\ Cardinality(Winners(results)) = 1
    /\ meta.winner_index # dealer_index

UtilitiesOfLabel(label) ==
    LET seats == SelectSeq(SeatSeq, LAMBDA i : players[i].strategy_type = label)
    IN  [k \in 1 .. Len(seats) |-> summary.per_player[seats[k]].utility]

\* C28: for any roster passed to simulate_custom_table, per_player has exactly one
\* entry per seat in seat order, and a seat's summary is added to the defensive
\* aggregate iff its label is DEF and to the aggressive aggregate iff its label is
\* AGG; seats with any other label (e.g. NEU) contribute to neither aggregate.
C28_CustomAggregates ==
    pc = "done" =>
        /\ DOMAIN summary.per_player = Seats
        /\ \A i \in Seats :
               /\ summary.per_player[i].player_index = i
               /\ summary.per_player[i].strategy_type = players[i].strategy_type
        /\ summary.defensive = UtilitiesOfLabel("DEF")
        /\ summary.aggressive = UtilitiesOfLabel("AGG")
        /\ Len(summary.defensive) + Len(summary.aggressive)
               = NumSeats - Cardinality({i \in Seats :
                                            players[i].strategy_type \notin {"DEF", "AGG"}})

\* a custom roster of one DEF seat and three NEU seats ended its session
C28_Witness ==
    /\ pc = "done"
    /\ players = CustomPlayers(DefPlayer(cfg.fan_min))
    /\ Len(summary.defensive) = 1
    /\ summary.aggressive = <<>>
    /\ summary.defensive[1] # summary.per_player[1].utility

RosterKept ==
    /\ players' = players
    /\ \A i \in Seats : rng_pos'[i] \in {rng_pos[i], rng_pos[i] + 1}
    /\ \A i \in Seats :
           players[i].strategy.kind # "neutral" => rng_pos'[i] = rng_pos[i]

====
